---- MODULE Spec2Model ----
(***************************************************************************)
(* Model of imagestats/src/computeMean.c: the core computeMean_ (one pass  *)
(* over a flat buffer of doubles with inclusive clipping) and the Python   *)
(* binding computeMean that parses the arguments, converts the input       *)
(* object to a contiguous array, calls the core, drops the array and       *)
(* builds the result tuple.                                                *)
(*                                                                         *)
(* Numbers.  Samples and clip bounds are integer-valued doubles, held as   *)
(* integers.  The results of the divisions (mean, the variance under the   *)
(* square root) are held as exact fractions [n, d]; d = 0 encodes the IEEE *)
(* results of a division by zero: 1/0 = +inf, -1/0 = -inf, 0/0 = NaN.      *)
(* Rounding of the quotients is not modelled (exact arithmetic).           *)
(***************************************************************************)
EXTENDS Integers, Sequences, FiniteSets

\* Longest input buffer (number of elements) that is enumerated.
MaxLen == 3
\* Samples and clip bounds are enumerated over 0..MaxVal.
MaxVal == 3

-----------------------------------------------------------------------------
(* Exact fractions standing for C doubles *)

Abs(k) == IF k < 0 THEN -k ELSE k

Sign(k) == IF k < 0 THEN -1 ELSE IF k > 0 THEN 1 ELSE 0

RECURSIVE GCD(_, _)
GCD(a, b) == IF b = 0 THEN a ELSE GCD(b, a % b)

\* The canonical fraction n/d: lowest terms, d > 0; d = 0 keeps only the sign.
Norm(n, d) ==
    IF d = 0 THEN [n |-> Sign(n), d |-> 0]
    ELSE LET g == GCD(Abs(n), Abs(d))
             s == Sign(d)
         IN  [n |-> (s * n) \div g, d |-> (s * d) \div g]

FromInt(k) == [n |-> k, d |-> 1]

NaN == [n |-> 0, d |-> 0]

IsNaN(a) == a.d = 0 /\ a.n = 0

IsInf(a) == a.d = 0 /\ a.n # 0

DblNeg(a) == [n |-> -a.n, d |-> a.d]

\* a + b on doubles
DblAdd(a, b) ==
    IF IsInf(a) /\ IsInf(b)
    THEN (IF a.n = b.n THEN a ELSE NaN)
    ELSE Norm(a.n * b.d + b.n * a.d, a.d * b.d)

\* a - b on doubles
DblSub(a, b) == DblAdd(a, DblNeg(b))

\* a * b on doubles
DblMul(a, b) == Norm(a.n * b.n, a.d * b.d)

\* a / b on doubles; x/0 is an infinity or, for x = 0, NaN
DblDiv(a, b) == Norm(a.n * b.d, a.d * b.n)

\* sqrt() of <math.h>, kept symbolic: the result is named by its radicand;
\* sqrt(NaN) and the square root of a negative number are NaN.
Sqrt(a) ==
    IF IsNaN(a) \/ a.n < 0
    THEN [nan |-> TRUE, radicand |-> NaN]
    ELSE [nan |-> FALSE, radicand |-> a]

-----------------------------------------------------------------------------
(* computeMean_ : the core *)

\* line 36: the clipping test, inclusive at both ends
InRangeLowerStrict(x, clipmin, clipmax) == (x > clipmin) /\ (x <= clipmax)

InRangeEither(x, clipmin, clipmax) == (x >= clipmin) \/ (x <= clipmax)

InRange(x, clipmin, clipmax) == (x >= clipmin) /\ (x <= clipmax)

\* line 32: seed of the running minimum
SeedMinFromClipmin(clipmin, clipmax) == clipmin

SeedMin(clipmin, clipmax) == clipmax

\* line 33: seed of the running maximum
SeedMax(clipmin, clipmax) == clipmin

\* lines 38-40
UpdateMinLast(x, tmpMinValue) == x

UpdateMin(x, tmpMinValue) == IF x < tmpMinValue THEN x ELSE tmpMinValue

\* lines 43-45
UpdateMaxFlipped(x, tmpMaxValue) == IF x < tmpMaxValue THEN x ELSE tmpMaxValue

UpdateMax(x, tmpMaxValue) == IF x > tmpMaxValue THEN x ELSE tmpMaxValue

\* lines 35-56 with the loop left at the first clipped sample
RECURSIVE LoopStopAtClipped(_, _, _, _, _, _)
LoopStopAtClipped(image, nelements, clipmin, clipmax, i, acc) ==
    IF i > nelements \/ ~InRange(image[i], clipmin, clipmax) THEN acc
    ELSE LET x == image[i]
         IN  LoopStopAtClipped(image, nelements, clipmin, clipmax, i + 1,
                  [tmpMinValue   |-> UpdateMin(x, acc.tmpMinValue),
                   tmpMaxValue   |-> UpdateMax(x, acc.tmpMaxValue),
                   numGoodPixels |-> acc.numGoodPixels + 1,
                   sum           |-> acc.sum + x,
                   sumsq         |-> acc.sumsq + (x * x)])

\* lines 35-56: the loop from index i on; acc holds the locals and *numGoodPixels
RECURSIVE Loop(_, _, _, _, _, _)
Loop(image, nelements, clipmin, clipmax, i, acc) ==
    IF i > nelements THEN acc
    ELSE LET x == image[i]
         IN  Loop(image, nelements, clipmin, clipmax, i + 1,
                  IF InRange(x, clipmin, clipmax)
                  THEN [tmpMinValue   |-> UpdateMin(x, acc.tmpMinValue),
                        tmpMaxValue   |-> UpdateMax(x, acc.tmpMaxValue),
                        numGoodPixels |-> acc.numGoodPixels + 1,
                        sum           |-> acc.sum + x,
                        sumsq         |-> acc.sumsq + (x * x)]
                  ELSE acc)

\* line 60
MeanOfBiased(sum, numGoodPixels) == DblDiv(FromInt(sum), FromInt(numGoodPixels + 1))

MeanOf(sum, numGoodPixels) == DblDiv(FromInt(sum), FromInt(numGoodPixels))

\* line 61: the numerator and the divisor under the square root
VarNumerator(sum, sumsq, mean) == DblSub(FromInt(sumsq), DblMul(mean, FromInt(sum)))

VarDivisor(numGoodPixels) == numGoodPixels - 1

VarianceOfPopulation(sum, sumsq, mean, numGoodPixels) ==
    DblDiv(VarNumerator(sum, sumsq, mean), FromInt(numGoodPixels))

VarianceOf(sum, sumsq, mean, numGoodPixels) ==
    DblDiv(VarNumerator(sum, sumsq, mean), FromInt(VarDivisor(numGoodPixels)))

\* line 63
CoreStatus == 1

\* lines 17-64.  numGoodPixels is the value *numGoodPixels has on entry: the
\* core increments it and never resets it.  The result holds the values
\* stored through the pointers, the return value, and the locals sum and
\* sumsq as they are when the function returns.
computeMean_(image, nelements, clipmin, clipmax, numGoodPixels) ==
    LET acc == Loop(image, nelements, clipmin, clipmax, 1,
                    [tmpMinValue   |-> SeedMin(clipmin, clipmax),
                     tmpMaxValue   |-> SeedMax(clipmin, clipmax),
                     numGoodPixels |-> numGoodPixels,
                     sum           |-> 0,
                     sumsq         |-> 0])
        m   == MeanOf(acc.sum, acc.numGoodPixels)
    IN  [numGoodPixels |-> acc.numGoodPixels,
         mean          |-> m,
         stddev        |-> Sqrt(VarianceOf(acc.sum, acc.sumsq, m, acc.numGoodPixels)),
         minValue      |-> acc.tmpMinValue,
         maxValue      |-> acc.tmpMaxValue,
         sum           |-> acc.sum,
         sumsq         |-> acc.sumsq,
         status        |-> CoreStatus]

-----------------------------------------------------------------------------
(* The Python objects handed to computeMean *)

Vals == 0 .. MaxVal

SeqsUpTo(S, n) == UNION {[1 .. k -> S] : k \in 0 .. n}

\* An array object: its element kind, its shape and its rows.  A rank-1
\* array is one row; a rank-2 array of shape <<r, c>> is r rows of c elements.
Rank1Arrays ==
    {[numeric |-> TRUE, shape |-> <<Len(s)>>, rows |-> <<s>>] : s \in SeqsUpTo(Vals, MaxLen)}

Rank2Shapes == {p \in (1 .. MaxLen) \X (0 .. MaxLen) : p[1] * p[2] <= MaxLen}

Rank2Arrays ==
    UNION {{[numeric |-> TRUE, shape |-> p, rows |-> m] :
                m \in [1 .. p[1] -> [1 .. p[2] -> Vals]]} : p \in Rank2Shapes}

\* Objects PyArray_ContiguousFromObject(o, PyArray_DOUBLE, 1, 2) rejects:
\* a scalar (rank 0), a rank-3 array, an array of non-numbers.
Rank0Object == [numeric |-> TRUE, shape |-> << >>, rows |-> << >>]

Rank3Object == [numeric |-> TRUE, shape |-> <<1, 1, 1>>, rows |-> << >>]

NonNumericObject == [numeric |-> FALSE, shape |-> <<1>>, rows |-> << >>]

MkArgs(o, lo, hi) == [parses |-> TRUE, oimage |-> o, clipmin |-> lo, clipmax |-> hi]

Vector(s) == [numeric |-> TRUE, shape |-> <<Len(s)>>, rows |-> <<s>>]

\* The worked examples of the documentation.
Scenarios ==
    {MkArgs(Vector(<<1, 2, 3, 4, 5>>), 0, 10),
     MkArgs(Vector(<<1, 2, 3, 4, 5>>), 2, 4),
     MkArgs(Vector(<<10>>), 0, 20),
     MkArgs(Vector(<<5, 15, 25>>), 10, 20)}

\* Argument tuples that PyArg_ParseTuple accepts.  The format "Off" stores
\* two C floats at the addresses of the double locals clipmin and clipmax, so
\* the doubles the core later reads need not be the caller's numbers; the
\* fields clipmin and clipmax are the values those locals hold once
\* PyArg_ParseTuple has returned, whatever they are.
GoodArgs ==
    {MkArgs(o, lo, hi) :
        o \in Rank1Arrays \cup Rank2Arrays \cup {Rank0Object, Rank3Object, NonNumericObject},
        lo \in Vals, hi \in Vals}
    \cup Scenarios

\* Argument tuples it rejects (wrong arity, a clip bound that is no number).
BadArgs == {[parses |-> FALSE, oimage |-> Rank0Object, clipmin |-> 0, clipmax |-> 0]}

\* Values an uninitialised local may hold.
Indeterminate == {0, 1}

-----------------------------------------------------------------------------
(* computeMean : the binding *)

Rank(o) == Len(o.shape)

RECURSIVE Concat(_)
Concat(rows) == IF rows = << >> THEN << >> ELSE Head(rows) \o Concat(Tail(rows))

NullArray == [null |-> TRUE, shape |-> << >>, data |-> << >>]

\* line 77: PyArray_ContiguousFromObject(oimage, PyArray_DOUBLE, 1, 2):
\* NULL unless the object is numeric of rank 1 or 2; else the elements in
\* row-major order.
PyArray_ContiguousFromObject(o) ==
    IF o.numeric /\ Rank(o) >= 1 /\ Rank(o) <= 2
    THEN [null |-> FALSE, shape |-> o.shape, data |-> Concat(o.rows)]
    ELSE NullArray

RECURSIVE Product(_)
Product(dims) == IF dims = << >> THEN 1 ELSE Head(dims) * Product(Tail(dims))

\* line 87: PyArray_Size: the number of elements
PyArray_Size(a) == IF a.null THEN 0 ELSE Product(a.shape)

\* line 92: Py_BuildValue("idddd", ...)
Py_BuildValueMinMaxSwapped(n, m, s, lo, hi) == [null |-> FALSE, tuple |-> <<n, m, s, hi, lo>>]

Py_BuildValue(n, m, s, lo, hi) == [null |-> FALSE, tuple |-> <<n, m, s, lo, hi>>]

\* return NULL
NullResult == [null |-> TRUE, tuple |-> << >>]

Zero == FromInt(0)

\* The double 0 as a value of stddev, and an arbitrary one
DblOfSquare(q) == [nan |-> FALSE, radicand |-> q]

VARIABLES
    pc,             \* position in computeMean
    args,           \* the argument tuple of the current call
    oimage, clipmin, clipmax,                           \* locals set by line 74
    image,          \* local: the converted array
    status, numGoodPixels, mean, stddev, minValue, maxValue,   \* locals
    sum, sumsq,     \* the core's locals when it last returned
    refs,           \* references held on the converted array
    coreCalls,      \* calls of computeMean_ made by the current call
    decrefs,        \* Py_XDECREF(image) executed by the current call
    coreEntry,      \* the values behind the five pointers when the core was entered
    result,         \* the value returned by the current call
    prev            \* the previous call's result when its arguments were the same

vars == <<pc, args, oimage, clipmin, clipmax, image, status, numGoodPixels, mean,
          stddev, minValue, maxValue, sum, sumsq, refs, coreCalls, decrefs, coreEntry,
          result, prev>>

NoPrev == [valid |-> FALSE, result |-> NullResult]

NoEntry == << >>

Init ==
    /\ pc = "idle"
    /\ args = [parses |-> FALSE, oimage |-> Rank0Object, clipmin |-> 0, clipmax |-> 0]
    /\ oimage = Rank0Object
    /\ clipmin = 0
    /\ clipmax = 0
    /\ image = NullArray
    /\ status = 0
    /\ numGoodPixels = 0
    /\ mean = Zero
    /\ stddev = DblOfSquare(Zero)
    /\ minValue = 0
    /\ maxValue = 0
    /\ sum = 0
    /\ sumsq = 0
    /\ refs = 0
    /\ coreCalls = 0
    /\ decrefs = 0
    /\ coreEntry = NoEntry
    /\ result = NullResult
    /\ prev = NoPrev

\* The argument tuples the caller may pass next: any at all, or, right after
\* a call has returned, the same ones again.
Callable(S) == IF pc = "idle" THEN S ELSE IF pc = "returned" THEN S \cap {args} ELSE {}

\* lines 68-72: a new activation.  status is initialised; the other locals
\* hold indeterminate values until they are assigned.
Enter(a) ==
    /\ pc \in {"idle", "returned"}
    /\ args' = a
    /\ prev' = IF pc = "returned" /\ args = a
               THEN [valid |-> TRUE, result |-> result]
               ELSE NoPrev
    /\ status' = 0
    /\ \E gi \in Indeterminate, gd \in Indeterminate :
          /\ numGoodPixels' = gi
          /\ mean' = FromInt(gd)
          /\ stddev' = DblOfSquare(FromInt(gd))
          /\ minValue' = gd
          /\ maxValue' = gd
    /\ image' = NullArray
    /\ refs' = 0
    /\ sum' = 0
    /\ sumsq' = 0
    /\ coreCalls' = 0
    /\ decrefs' = 0
    /\ coreEntry' = NoEntry

\* lines 74-75: PyArg_ParseTuple fails
ParseArgsFail ==
    \E a \in Callable(BadArgs) :
        /\ Enter(a)
        /\ result' = NullResult
        /\ pc' = "returned"
        /\ UNCHANGED <<oimage, clipmin, clipmax>>

\* line 74: PyArg_ParseTuple succeeds
ParseArgsOk ==
    \E a \in Callable(GoodArgs) :
        /\ Enter(a)
        /\ oimage' = a.oimage
        /\ clipmin' = a.clipmin
        /\ clipmax' = a.clipmax
        /\ result' = NullResult
        /\ pc' = "parsed"

\* lines 77-79: the conversion fails
ConvertFail ==
    /\ pc = "parsed"
    /\ PyArray_ContiguousFromObject(oimage).null
    /\ image' = NullArray
    /\ result' = NullResult
    /\ pc' = "returned"
    /\ UNCHANGED <<args, oimage, clipmin, clipmax, status, numGoodPixels, mean, stddev,
                   minValue, maxValue, sum, sumsq, refs, coreCalls, decrefs, coreEntry, prev>>

\* line 77: the conversion succeeds; the function owns one reference
ConvertOk ==
    /\ pc = "parsed"
    /\ ~PyArray_ContiguousFromObject(oimage).null
    /\ image' = PyArray_ContiguousFromObject(oimage)
    /\ refs' = 1
    /\ pc' = "converted"
    /\ UNCHANGED <<args, oimage, clipmin, clipmax, status, numGoodPixels, mean, stddev,
                   minValue, maxValue, sum, sumsq, coreCalls, decrefs, coreEntry, result,
                   prev>>

\* lines 81-85 with "numGoodPixels = 0" left out
InitLocalsKeepCount ==
    /\ pc = "converted"
    /\ mean' = Zero
    /\ stddev' = DblOfSquare(Zero)
    /\ minValue' = 0
    /\ maxValue' = 0
    /\ pc' = "ready"
    /\ UNCHANGED <<args, oimage, clipmin, clipmax, image, status, numGoodPixels, sum, sumsq,
                   refs, coreCalls, decrefs, coreEntry, result, prev>>

\* lines 81-85
InitLocals ==
    /\ pc = "converted"
    /\ mean' = Zero
    /\ stddev' = DblOfSquare(Zero)
    /\ numGoodPixels' = 0
    /\ minValue' = 0
    /\ maxValue' = 0
    /\ pc' = "ready"
    /\ UNCHANGED <<args, oimage, clipmin, clipmax, image, status, sum, sumsq, refs,
                   coreCalls, decrefs, coreEntry, result, prev>>

\* lines 87-89: the call of the core
CallCore ==
    /\ pc = "ready"
    /\ LET r == computeMean_(image.data, PyArray_Size(image), clipmin, clipmax,
                             numGoodPixels)
       IN  /\ status' = r.status
           /\ numGoodPixels' = r.numGoodPixels
           /\ mean' = r.mean
           /\ stddev' = r.stddev
           /\ minValue' = r.minValue
           /\ maxValue' = r.maxValue
           /\ sum' = r.sum
           /\ sumsq' = r.sumsq
    /\ coreEntry' = <<numGoodPixels, mean, stddev, minValue, maxValue>>
    /\ coreCalls' = coreCalls + 1
    /\ pc' = "called"
    /\ UNCHANGED <<args, oimage, clipmin, clipmax, image, refs, decrefs, result, prev>>

\* line 90: Py_XDECREF(image)
Release ==
    /\ pc = "called"
    /\ refs' = refs - 1
    /\ decrefs' = decrefs + 1
    /\ pc' = "released"
    /\ UNCHANGED <<args, oimage, clipmin, clipmax, image, status, numGoodPixels, mean,
                   stddev, minValue, maxValue, sum, sumsq, coreCalls, coreEntry, result,
                   prev>>

\* line 92: build and return the tuple
Return ==
    /\ pc = "released"
    /\ result' = Py_BuildValue(numGoodPixels, mean, stddev, minValue, maxValue)
    /\ pc' = "returned"
    /\ UNCHANGED <<args, oimage, clipmin, clipmax, image, status, numGoodPixels, mean,
                   stddev, minValue, maxValue, sum, sumsq, refs, coreCalls, decrefs,
                   coreEntry, prev>>

\* line 75, 79, 92: the activation is over and the caller drops the result;
\* nothing of the call is kept.
Forget ==
    /\ pc = "returned"
    /\ pc' = "idle"
    /\ args' = [parses |-> FALSE, oimage |-> Rank0Object, clipmin |-> 0, clipmax |-> 0]
    /\ oimage' = Rank0Object
    /\ clipmin' = 0
    /\ clipmax' = 0
    /\ image' = NullArray
    /\ status' = 0
    /\ numGoodPixels' = 0
    /\ mean' = Zero
    /\ stddev' = DblOfSquare(Zero)
    /\ minValue' = 0
    /\ maxValue' = 0
    /\ sum' = 0
    /\ sumsq' = 0
    /\ refs' = 0
    /\ coreCalls' = 0
    /\ decrefs' = 0
    /\ coreEntry' = NoEntry
    /\ result' = NullResult
    /\ prev' = NoPrev

Next ==
    \/ ParseArgsFail
    \/ ParseArgsOk
    \/ ConvertFail
    \/ ConvertOk
    \/ InitLocals
    \/ CallCore
    \/ Release
    \/ Return
    \/ Forget

Spec == Init /\ [][Next]_vars

-----------------------------------------------------------------------------
(* Vocabulary of the properties *)

\* The core has been called by the current activation and has returned.
CoreReturned == coreCalls = 1

\* The activation has returned a tuple.
Returned == pc = "returned" /\ ~result.null

\* The sample sequence handed to the core.
Samples == image.data

Accepted(x) == clipmin <= x /\ x <= clipmax

AcceptedIndices == {i \in 1 .. Len(Samples) : Accepted(Samples[i])}

AcceptedValues == {Samples[i] : i \in AcceptedIndices}

AcceptedSeq == SelectSeq(Samples, LAMBDA x : Accepted(x))

RECURSIVE SeqSum(_)
SeqSum(s) == IF s = << >> THEN 0 ELSE Head(s) + SeqSum(Tail(s))

RECURSIVE SeqSumSq(_)
SeqSumSq(s) == IF s = << >> THEN 0 ELSE Head(s) * Head(s) + SeqSumSq(Tail(s))

\* Sum of (x - m)^2 over the elements x of s, as a fraction
RECURSIVE SumSqDev(_, _)
SumSqDev(s, m) ==
    IF s = << >> THEN Zero
    ELSE LET dev == DblSub(FromInt(Head(s)), m)
         IN  DblAdd(DblMul(dev, dev), SumSqDev(Tail(s), m))

Permutations(n) == {f \in [1 .. n -> 1 .. n] : \A i, j \in 1 .. n : f[i] = f[j] => i = j}

Permuted(s, f) == [i \in 1 .. Len(s) |-> s[f[i]]]

-----------------------------------------------------------------------------
(* Properties *)

\* C1: numGood is the number of samples x with clipmin <= x <= clipmax, both
\* ends inclusive, for every sample sequence (the empty one included); the
\* samples outside the range add nothing to the count, the sum or the sum of
\* squares.
C1_CountInclusive ==
    CoreReturned =>
        /\ numGoodPixels = Cardinality(AcceptedIndices)
        /\ sum = SeqSum(AcceptedSeq)
        /\ sumsq = SeqSumSq(AcceptedSeq)
        /\ Returned => result.tuple[1] = Cardinality(AcceptedIndices)

C1_Witness ==
    /\ Returned
    /\ clipmin < clipmax
    /\ \E i, j, k \in 1 .. Len(Samples) :
          /\ Samples[i] = clipmin
          /\ Samples[j] = clipmax
          /\ ~Accepted(Samples[k])
    /\ numGoodPixels = 2

\* C2: when at least one sample is accepted, minValue is the smallest and
\* maxValue the largest accepted sample: each occurs in the sample sequence
\* and lies in [clipmin, clipmax].
C2_MinMaxOfAccepted ==
    (CoreReturned /\ numGoodPixels >= 1) =>
        /\ minValue \in AcceptedValues
        /\ maxValue \in AcceptedValues
        /\ \A v \in AcceptedValues : minValue <= v /\ v <= maxValue
        /\ Returned => (result.tuple[4] = minValue /\ result.tuple[5] = maxValue)

C2_Witness ==
    /\ Returned
    /\ numGoodPixels >= 2
    /\ minValue < maxValue
    /\ minValue > clipmin
    /\ \E i \in 1 .. Len(Samples) : Samples[i] < clipmin
    /\ Samples[Len(Samples)] = maxValue

\* C3: when no sample is accepted (an empty sequence in particular), minValue
\* is clipmax and maxValue is clipmin.
C3_SwappedSentinels ==
    (CoreReturned /\ numGoodPixels = 0) =>
        /\ minValue = clipmax
        /\ maxValue = clipmin
        /\ Returned => (result.tuple[4] = clipmax /\ result.tuple[5] = clipmin)

C3_Witness ==
    /\ Returned
    /\ numGoodPixels = 0
    /\ Samples = << >>
    /\ clipmin < clipmax
    /\ result.tuple[4] > result.tuple[5]

\* C4: minValue <= maxValue whenever numGood >= 1.
C4_MinLeMax ==
    (CoreReturned /\ numGoodPixels >= 1) =>
        /\ minValue <= maxValue
        /\ Returned => result.tuple[4] <= result.tuple[5]

C4_Witness ==
    /\ Returned
    /\ numGoodPixels >= 2
    /\ clipmin < minValue
    /\ minValue < maxValue
    /\ maxValue < clipmax

C6_MeanAndVariance ==
    /\ (CoreReturned /\ numGoodPixels >= 2) =>
          LET m == DblDiv(FromInt(SeqSum(AcceptedSeq)), FromInt(Len(AcceptedSeq)))
          IN  /\ mean = m
              /\ ~stddev.nan
              /\ stddev.radicand =
                    DblDiv(SumSqDev(AcceptedSeq, m), FromInt(Len(AcceptedSeq) - 1))
              /\ Returned => (result.tuple[2] = mean /\ result.tuple[3] = stddev)
    /\ (CoreReturned /\ Samples = <<1, 2, 3, 4, 5>> /\ clipmin = 0 /\ clipmax = 10) =>
          /\ numGoodPixels = 5
          /\ mean = FromInt(3)
          /\ stddev = [nan |-> FALSE, radicand |-> [n |-> 5, d |-> 2]]
    /\ (CoreReturned /\ Samples = <<1, 2, 3, 4, 5>> /\ clipmin = 2 /\ clipmax = 4) =>
          /\ numGoodPixels = 3
          /\ mean = FromInt(3)
          /\ stddev = [nan |-> FALSE, radicand |-> FromInt(1)]

C6_Witness ==
    /\ Returned
    /\ Samples = <<1, 2, 3, 4, 5>>
    /\ clipmin = 2
    /\ clipmax = 4
    /\ result.tuple = <<3, FromInt(3), [nan |-> FALSE, radicand |-> FromInt(1)], 2, 4>>

\* C7: the core gives every permutation of the sample sequence, under the same
\* clip bounds, the same numGood, minValue, maxValue, sum, sum of squares and
\* mean (exact arithmetic).
C7_OrderInsensitive ==
    (pc = "called") =>
        \A f \in Permutations(Len(Samples)) :
            LET r == computeMean_(Permuted(Samples, f), Len(Samples), clipmin, clipmax, 0)
            IN  /\ r.numGoodPixels = numGoodPixels
                /\ r.minValue = minValue
                /\ r.maxValue = maxValue
                /\ r.sum = sum
                /\ r.sumsq = sumsq
                /\ r.mean = mean

C7_Witness ==
    /\ pc = "called"
    /\ Len(Samples) = 3
    /\ Samples[1] < Samples[2]
    /\ Samples[3] < Samples[1]
    /\ Samples[3] < clipmin
    /\ numGoodPixels = 2

\* C8: with exactly one accepted sample the stddev computation is 0 / 0: the
\* numerator sumsq - mean*sum is zero and the divisor numGood - 1 is zero;
\* minValue and maxValue are both the accepted sample; the core returns 1 and
\* the call returns its tuple.
C8_SingleSample ==
    (CoreReturned /\ numGoodPixels = 1) =>
        /\ DblSub(FromInt(sumsq), DblMul(mean, FromInt(sum))) = Zero
        /\ numGoodPixels - 1 = 0
        /\ stddev = Sqrt(DblDiv(Zero, Zero))
        /\ stddev.nan
        /\ AcceptedValues = {minValue}
        /\ maxValue = minValue
        /\ status = 1
        /\ pc = "returned" => ~result.null

C8_Witness ==
    /\ Returned
    /\ Samples = <<5, 15, 25>>
    /\ numGoodPixels = 1
    /\ result.tuple[3].nan
    /\ result.tuple[4] = 15
    /\ result.tuple[5] = 15

\* C9: whenever clipmin > clipmax no sample is accepted: numGood is 0,
\* minValue is clipmax, maxValue is clipmin, so minValue < maxValue, and the
\* mean is a division by zero.
C9_InvertedBounds ==
    (CoreReturned /\ clipmin > clipmax) =>
        /\ numGoodPixels = 0
        /\ minValue = clipmax
        /\ maxValue = clipmin
        /\ minValue < maxValue
        /\ sum = 0
        /\ IsNaN(mean)

C9_Witness ==
    /\ Returned
    /\ clipmin > clipmax
    /\ \E i, j, k \in 1 .. Len(Samples) :
          /\ Samples[i] = clipmin
          /\ Samples[j] = clipmax
          /\ clipmax < Samples[k] /\ Samples[k] < clipmin
    /\ result.tuple[1] = 0

\* C10: if parsing the arguments or converting the input to a contiguous
\* double array of rank 1 or 2 fails, computeMean returns the error value
\* without calling the core and without releasing an array; otherwise it calls
\* the core exactly once with numGoodPixels, mean, stddev, minValue and
\* maxValue all 0, releases the array exactly once and only after the core has
\* returned, and returns (numGoodPixels, mean, stddev, minValue, maxValue).
C10_Fails == ~args.parses \/ ~(args.oimage.numeric /\ Len(args.oimage.shape) \in {1, 2})

C10_BindingProtocol ==
    /\ coreCalls <= 1
    /\ decrefs <= 1
    /\ decrefs = 1 => coreCalls = 1
    /\ refs >= 0
    /\ (pc = "returned" /\ C10_Fails) =>
          /\ result.null
          /\ coreCalls = 0
          /\ decrefs = 0
    /\ (pc = "returned" /\ ~C10_Fails) =>
          /\ ~result.null
          /\ coreCalls = 1
          /\ coreEntry = <<0, Zero, DblOfSquare(Zero), 0, 0>>
          /\ decrefs = 1
          /\ refs = 0
          /\ result.tuple = <<numGoodPixels, mean, stddev, minValue, maxValue>>

C10_Witness ==
    /\ Returned
    /\ Len(args.oimage.shape) = 2
    /\ decrefs = 1
    /\ result.tuple[1] >= 1
    /\ result.tuple[4] < result.tuple[5]

====
